---- MODULE Spec2Model ----
(***************************************************************************)
(* Model of httpbun's request-dispatch core: the per-request Exchange      *)
(* (package exchange), the dispatcher Server.ServeHTTP and the server      *)
(* lifecycle StartNew / Wait / CloseAndWait (package server).              *)
(*                                                                         *)
(* A Go string is a sequence of atoms (one-character strings, or a whole   *)
(* token where the code never looks inside the text); "" is << >>.         *)
(* An http.Header is a function from header names to the sequence of the   *)
(* values of that header, << >> when the header is absent.                 *)
(***************************************************************************)
EXTENDS Integers, Sequences, FiniteSets, TLC

VARIABLES
    \* ---- dispatcher (Server.ServeHTTP and the Exchange it builds)
    spec,        \* spec.Spec of the process: PathPrefix, Commit
    routes,      \* Server.routes, the ordered route table
    pc,          \* position of the goroutine serving the request
    req,         \* the *http.Request being served
    w,           \* the http.ResponseWriter of the request
    ex,          \* the *Exchange built by exchange.New
    ri,          \* index of the route the loop of ServeHTTP is at
    invoked,     \* the route.Fn calls made for this request, in order
    incomingIP,  \* ServeHTTP's local incomingIP
    prim,        \* the last response primitive the handler called
    nops,        \* number of primitives the handler has called
    \* ---- Exchange accessors called by handlers
    xtls,        \* whether HTTPBUN_SSL_CERT is set in the environment
    xreq,        \* the request of the Exchange
    xlr,         \* the io.LimitedReader behind Exchange.CappedBody
    xreads,      \* the results of the BodyBytes / BodyString calls so far
    xlast,       \* the last accessor call and its result
    \* ---- server lifecycle
    srv,         \* the embedded *http.Server
    servePc,     \* position of the goroutine started by StartNew
    serveErr,    \* what Serve / ServeTLS returned
    closeCh,     \* Server.closeCh
    sends,       \* number of values sent on closeCh
    prog,        \* what each caller goroutine runs
    cpc,         \* position of each caller goroutine
    timer,       \* time since each caller's Shutdown context was created
    shutErr,     \* what Shutdown returned to each caller
    closed,      \* whether each caller called Server.Close
    waits        \* the values each caller's Wait calls returned, in order

dvars == <<spec, routes, pc, req, w, ex, ri, invoked, incomingIP, prim, nops>>
xvars == <<xtls, xreq, xlr, xreads, xlast>>
lvars == <<srv, servePc, serveErr, closeCh, sends, prog, cpc, timer,
           shutErr, closed, waits>>
vars == <<dvars, xvars, lvars>>

\* ------------------------------------------------------------------ bounds
MaxPathLen == 4
MaxHeaderValues == 2
MaxHandlerOps == 2
MaxRoutes == 2
MaxParams == 2
MaxReads == 2
MaxCallers == 2

\* ----------------------------------------------------------------- strings
Min(a, b) == IF a < b THEN a ELSE b

Max(a, b) == IF a < b THEN b ELSE a

SeqsUpTo(S, n) == UNION {[1..k -> S] : k \in 0..n}

Drop(s, n) == SubSeq(s, n + 1, Len(s))

Take(s, n) == SubSeq(s, 1, n)

HasPrefix(s, prefix) ==
    Len(s) >= Len(prefix) /\ Take(s, Len(prefix)) = prefix

TrimPrefixAll(s, prefix) ==
    LET RECURSIVE strip(_)
        strip(t) == IF prefix # << >> /\ HasPrefix(t, prefix)
                    THEN strip(Drop(t, Len(prefix))) ELSE t
    IN strip(s)

TrimPrefix(s, prefix) ==
    IF HasPrefix(s, prefix) THEN Drop(s, Len(prefix)) ELSE s

\* 1-based position of the first occurrence of sub in s at or after from; 0 if none
IndexFrom(s, sub, from) ==
    LET hits == {k \in from..(Len(s) - Len(sub) + 1) :
                    SubSeq(s, k, k + Len(sub) - 1) = sub}
    IN IF hits = {} THEN 0 ELSE CHOOSE k \in hits : \A j \in hits : k <= j

Contains(s, sub) == IndexFrom(s, sub, 1) # 0

IndexByte(s, c) == IndexFrom(s, <<c>>, 1)

LastIndexByte(s, c) ==
    LET hits == {k \in 1..Len(s) : s[k] = c}
    IN IF hits = {} THEN 0 ELSE CHOOSE k \in hits : \A j \in hits : k >= j

\* --------------------------------------------------------- response sink
RespHeaderNames ==
    {"Access-Control-Allow-Origin", "Access-Control-Allow-Credentials",
     "Access-Control-Allow-Headers", "Access-Control-Allow-Methods",
     "X-Powered-By", "Location", "Content-Type", "X-Content-Type-Options",
     "Content-Length"}

NoHeaders == [k \in RespHeaderNames |-> << >>]

\* a fresh http.ResponseWriter: header is the live map, sent the snapshot that
\* went out with the status line
NewResponseWriter ==
    [header |-> NoHeaders, wroteHeader |-> FALSE, status |-> 0,
     sent |-> NoHeaders, body |-> << >>, events |-> << >>]

Ev(e, k) == [e |-> e, k |-> k]

\* w.Header().Set(k, v): changes the live map; what was sent stays as it was
HeaderSet(rw, k, v) ==
    [rw EXCEPT !.header[k] = <<v>>, !.events = Append(@, Ev("set", k))]

HeaderDel(rw, k) == [rw EXCEPT !.header[k] = << >>]

\* w.WriteHeader(code): the first call commits the status and the headers;
\* a later call is superfluous and changes nothing
WriteHeader(rw, code) ==
    IF rw.wroteHeader
    THEN [rw EXCEPT !.events = Append(@, Ev("superfluous", ""))]
    ELSE [rw EXCEPT !.wroteHeader = TRUE, !.status = code, !.sent = rw.header,
                    !.events = Append(@, Ev("commit", ""))]

\* w.Write(data): commits 200 first when nothing was committed; a response
\* committed without a Content-Type gets the sniffed one
Write(rw, data) ==
    LET c == IF rw.wroteHeader THEN rw ELSE WriteHeader(rw, 200)
        s == IF c.body = << >> /\ c.sent["Content-Type"] = << >>
             THEN [c EXCEPT !.sent["Content-Type"] = <<data.sniff>>]
             ELSE c
    IN [s EXCEPT !.body = Append(@, data), !.events = Append(@, Ev("write", ""))]

TextPlain == <<"text/plain; charset=utf-8">>

TextHTML == <<"text/html; charset=utf-8">>

ApplicationJSON == <<"application/json">>

Data(kind, text, sniff) == [kind |-> kind, text |-> text, sniff |-> sniff]

\* http.NotFound(w, req) == http.Error(w, "404 page not found", 404)
NotFound(rw) ==
    LET a == HeaderDel(rw, "Content-Length")
        b == HeaderSet(a, "Content-Type", TextPlain)
        c == HeaderSet(b, "X-Content-Type-Options", <<"nosniff">>)
        d == WriteHeader(c, 404)
    IN Write(d, Data("text", <<"404 page not found", "\n">>, TextPlain))

\* ------------------------------------------------------------ route patterns
\* A route pattern is [anchorStart, elems, anchorEnd]: "^" elems "$" with either
\* anchor optional. An element is a literal atom, a named group
\* (?P<name>[^/]+) or an unnamed group ([^/]+).
Lit(c) == [t |-> "lit", v |-> c]

Cap(name) == [t |-> "cap", v |-> name]

Grp == [t |-> "grp", v |-> ""]

Pat(a, elems, e) == [anchorStart |-> a, elems |-> elems, anchorEnd |-> e]

NoMatch == [ok |-> FALSE, end |-> 0, caps |-> << >>]

\* length of the longest run of atoms other than "/" of s from position pos
RECURSIVE RunLen(_, _)
RunLen(s, pos) ==
    IF pos > Len(s) \/ s[pos] = "/" THEN 0 ELSE 1 + RunLen(s, pos + 1)

\* the match of elems[k..] against s from pos that the regexp engine prefers
\* (groups are greedy, and give back one atom at a time)
RECURSIVE MatchHere(_, _, _, _, _)
RECURSIVE MatchGroup(_, _, _, _, _, _)
MatchHere(pat, k, s, pos, caps) ==
    IF k > Len(pat.elems)
    THEN IF pat.anchorEnd /\ pos # Len(s) + 1 THEN NoMatch
         ELSE [ok |-> TRUE, end |-> pos, caps |-> caps]
    ELSE IF pat.elems[k].t = "lit"
         THEN IF pos <= Len(s) /\ s[pos] = pat.elems[k].v
              THEN MatchHere(pat, k + 1, s, pos + 1, caps)
              ELSE NoMatch
         ELSE MatchGroup(pat, k, s, pos, caps, RunLen(s, pos))

MatchGroup(pat, k, s, pos, caps, n) ==
    IF n = 0 THEN NoMatch
    ELSE LET r == MatchHere(pat, k + 1, s, pos + n,
                            Append(caps, SubSeq(s, pos, pos + n - 1)))
         IN IF r.ok THEN r ELSE MatchGroup(pat, k, s, pos, caps, n - 1)

\* routePat.FindStringSubmatch(s): the leftmost match; caps[i] is match[i]
RECURSIVE FindFrom(_, _, _)
FindFrom(pat, s, pos) ==
    IF pos > Len(s) + 1 THEN NoMatch
    ELSE LET r == MatchHere(pat, 1, s, pos, << >>)
         IN IF r.ok THEN r
            ELSE IF pat.anchorStart THEN NoMatch
            ELSE FindFrom(pat, s, pos + 1)

FindStringSubmatch(pat, s) == FindFrom(pat, s, 1)

\* routePat.SubexpNames() without its first element: the name of each group
SubexpNames(pat) ==
    LET groups == SelectSeq(pat.elems, LAMBDA el : el.t # "lit")
    IN [g \in 1..Len(groups) |-> groups[g].v]

\* ------------------------------------------------------------------ Exchange
ReqHeaderNames ==
    {"Origin", "Access-Control-Request-Headers",
     "Access-Control-Request-Method", "X-Httpbun-Forwarded-For",
     "X-Httpbun-Forwarded-Proto"}

NoReqHeaders == [k \in ReqHeaderNames |-> << >>]

\* http.Header.Get: the first value of the header, "" when there is none
HeaderGet(h, name) == IF h[name] = << >> THEN << >> ELSE h[name][1]

HeaderValueLast(e, name) ==
    LET values == e.Request.Header[name]
    IN IF Len(values) > 0 THEN values[Len(values)] ELSE << >>

\* the two Access-Control-Allow-* headers that New derives from Origin
SetOriginHeadersWildcard(e, rw) ==
    LET originHeader == HeaderValueLast(e, "Origin")
    IN IF originHeader # << >>
       THEN HeaderSet(HeaderSet(rw, "Access-Control-Allow-Origin", <<"*">>),
                      "Access-Control-Allow-Credentials", <<"true">>)
       ELSE rw

SetOriginHeaders(e, rw) ==
    LET originHeader == HeaderValueLast(e, "Origin")
    IN IF originHeader # << >>
       THEN HeaderSet(HeaderSet(rw, "Access-Control-Allow-Origin", originHeader),
                      "Access-Control-Allow-Credentials", <<"true">>)
       ELSE rw

DerivedPath(path, prefix) == TrimPrefix(path, prefix)

\* exchange.New(w, req, serverSpec): the Exchange, and w with the headers set
New(rw, request, serverSpec) ==
    LET e == [Request |-> request,
              Fields |-> << >>,
              URL |-> [Path |-> DerivedPath(request.Path, serverSpec.PathPrefix),
                       Host |-> IF request.URLHost = << >> /\ request.Host # << >>
                                THEN request.Host ELSE request.URLHost],
              ServerSpec |-> serverSpec]
        a == SetOriginHeaders(e, rw)
        h == HeaderGet(request.Header, "Access-Control-Request-Headers")
        b == IF h # << >> THEN HeaderSet(a, "Access-Control-Allow-Headers", h) ELSE a
        m == HeaderGet(request.Header, "Access-Control-Request-Method")
        c == IF m # << >> THEN HeaderSet(b, "Access-Control-Allow-Methods", m) ELSE b
        d == HeaderSet(c, "X-Powered-By", <<"httpbun/">> \o serverSpec.Commit)
    IN [ex |-> e, w |-> d]

\* ex.MatchAndLoadFields(routePat): whether the pattern matches the derived
\* path, and the Fields map after it (a map from group names to strings)
MatchAndLoadFields(e, routePat) ==
    LET match == FindStringSubmatch(routePat, e.URL.Path)
        names == SubexpNames(routePat)
        named == {g \in 1..Len(names) : names[g] # ""}
        keys == {names[g] : g \in named}
        \* a name used by two groups keeps the value of the later group
        last(n) == CHOOSE g \in named : names[g] = n /\
                        \A j \in named : names[j] = n => j <= g
    IN IF match.ok
       THEN [ok |-> TRUE,
             Fields |-> [n \in (DOMAIN e.Fields) \cup keys |->
                            IF n \in keys THEN match.caps[last(n)]
                            ELSE e.Fields[n]]]
       ELSE [ok |-> FALSE, Fields |-> e.Fields]

Field(e, name) == IF name \in DOMAIN e.Fields THEN e.Fields[name] ELSE << >>

\* ------------------------------------------------- net.SplitHostPort, net.IP
Digits == <<"0", "1", "2", "3", "4", "5", "6", "7", "8", "9">>

LowerHex == Digits \o <<"a", "b", "c", "d", "e", "f">>

UpperHex == Digits \o <<"A", "B", "C", "D", "E", "F">>

IsDigit(c) == \E k \in 1..Len(Digits) : Digits[k] = c

IsHex(c) == \E k \in 1..Len(LowerHex) : LowerHex[k] = c \/ UpperHex[k] = c

HexVal(c) == (CHOOSE k \in 1..Len(LowerHex) : LowerHex[k] = c \/ UpperHex[k] = c) - 1

NoHostPort == [err |-> TRUE, host |-> << >>, port |-> << >>]

\* net.SplitHostPort(hostport); positions are 1-based, 0 is "not found"
SplitHostPort(hostport) ==
    LET i == LastIndexByte(hostport, ":")
        end == IndexByte(hostport, "]")
        bracketed == hostport[1] = "["
        host == IF bracketed THEN SubSeq(hostport, 2, end - 1)
                ELSE Take(hostport, i - 1)
        \* no "[" after position j, no "]" after position k
        j == IF bracketed THEN 1 ELSE 0
        k == IF bracketed THEN end ELSE 0
    IN IF i = 0 THEN NoHostPort                            \* missing port
       ELSE IF bracketed /\ end = 0 THEN NoHostPort        \* missing ']'
       ELSE IF bracketed /\ end + 1 # i THEN NoHostPort    \* missing port, too many colons
       ELSE IF ~bracketed /\ IndexByte(host, ":") # 0 THEN NoHostPort
       ELSE IF IndexByte(Drop(hostport, j), "[") # 0 THEN NoHostPort
       ELSE IF IndexByte(Drop(hostport, k), "]") # 0 THEN NoHostPort
       ELSE [err |-> FALSE, host |-> host, port |-> Drop(hostport, i)]

NoIP == [ok |-> FALSE, ip |-> << >>]

\* the four decimal fields of a dotted IPv4 address: at most 255 each, no
\* leading zero, exactly three dots with digits on both sides
RECURSIVE ParseIPv4Fields(_, _, _, _, _)
ParseIPv4Fields(s, i, val, digLen, fields) ==
    IF i > Len(s)
    THEN IF Len(fields) < 3 THEN NoIP
         ELSE [ok |-> TRUE, ip |-> Append(fields, val)]
    ELSE IF IsDigit(s[i])
         THEN IF digLen = 1 /\ val = 0 THEN NoIP
              ELSE IF val * 10 + HexVal(s[i]) > 255 THEN NoIP
              ELSE ParseIPv4Fields(s, i + 1, val * 10 + HexVal(s[i]),
                                   digLen + 1, fields)
         ELSE IF s[i] = "."
              THEN IF i = 1 \/ i = Len(s) \/ s[i - 1] = "." THEN NoIP
                   ELSE IF Len(fields) = 3 THEN NoIP
                   ELSE ParseIPv4Fields(s, i + 1, 0, 0, Append(fields, val))
              ELSE NoIP

\* the run of hexadecimal digits s starts with: its length, its value, and
\* whether it has more than four digits
RECURSIVE HexRun(_, _, _)
HexRun(s, off, acc) ==
    IF off < Len(s) /\ IsHex(s[off + 1])
    THEN IF off + 1 > 4 THEN [off |-> off + 1, acc |-> acc, bad |-> TRUE]
         ELSE HexRun(s, off + 1, acc * 16 + HexVal(s[off + 1]))
    ELSE [off |-> off, acc |-> acc, bad |-> FALSE]

Zeros(n) == [k \in 1..n |-> 0]

\* the end of the IPv6 parser: the whole text used, the ellipsis expanded
FinishIPv6(s, ip, ellipsis) ==
    IF s # << >> THEN NoIP
    ELSE IF Len(ip) < 16
         THEN IF ellipsis < 0 THEN NoIP
              ELSE [ok |-> TRUE,
                    ip |-> Take(ip, ellipsis) \o Zeros(16 - Len(ip))
                           \o Drop(ip, ellipsis)]
         ELSE IF ellipsis >= 0 THEN NoIP
         ELSE [ok |-> TRUE, ip |-> ip]

\* the loop of the IPv6 parser: ip holds the bytes parsed so far, ellipsis the
\* number of bytes before the "::" (-1 when there was none)
RECURSIVE ParseIPv6Loop(_, _, _)
ParseIPv6Loop(s, ip, ellipsis) ==
    IF Len(ip) >= 16 THEN FinishIPv6(s, ip, ellipsis)
    ELSE
    LET h == HexRun(s, 0, 0)
        ip2 == ip \o <<h.acc \div 256, h.acc % 256>>
        s2 == Drop(s, h.off)
        s3 == Drop(s2, 1)
        s4 == Drop(s3, 1)
        v4 == ParseIPv4Fields(s, 1, 0, 0, << >>)
    IN IF h.bad \/ h.off = 0 THEN NoIP
       ELSE IF h.off < Len(s) /\ s[h.off + 1] = "."
            THEN IF (ellipsis < 0 /\ Len(ip) # 12) \/ Len(ip) + 4 > 16 THEN NoIP
                 ELSE IF ~v4.ok THEN NoIP
                 ELSE FinishIPv6(<< >>, ip \o v4.ip, ellipsis)
       ELSE IF s2 = << >> THEN FinishIPv6(s2, ip2, ellipsis)
       ELSE IF s2[1] # ":" \/ Len(s2) = 1 THEN NoIP
       ELSE IF s3[1] = ":"
            THEN IF ellipsis >= 0 THEN NoIP
                 ELSE IF s4 = << >> THEN FinishIPv6(s4, ip2, Len(ip2))
                 ELSE ParseIPv6Loop(s4, ip2, Len(ip2))
       ELSE ParseIPv6Loop(s3, ip2, ellipsis)

ParseIPv6(s) ==
    IF IndexByte(s, "%") # 0 THEN NoIP     \* net.ParseIP takes no zone
    ELSE IF Len(s) >= 2 /\ s[1] = ":" /\ s[2] = ":"
         THEN IF Len(s) = 2 THEN [ok |-> TRUE, ip |-> Zeros(16)]
              ELSE ParseIPv6Loop(Drop(s, 2), << >>, 0)
         ELSE ParseIPv6Loop(s, << >>, -1)

V4InV6Prefix == Zeros(10) \o <<255, 255>>

\* net.ParseIP(s): the 16-byte form of the address, or no address
ParseIP(s) ==
    LET marks == {k \in 1..Len(s) : s[k] \in {".", ":", "%"}}
        first == CHOOSE k \in marks : \A j \in marks : k <= j
        v4 == ParseIPv4Fields(s, 1, 0, 0, << >>)
    IN IF marks = {} THEN NoIP
       ELSE IF s[first] = "."
            THEN IF v4.ok THEN [ok |-> TRUE, ip |-> V4InV6Prefix \o v4.ip]
                 ELSE NoIP
       ELSE IF s[first] = ":" THEN ParseIPv6(s)
       ELSE NoIP

RECURSIVE FormatUint(_, _)
FormatUint(n, base) ==
    IF n < base THEN <<LowerHex[n + 1]>>
    ELSE Append(FormatUint(n \div base, base), LowerHex[(n % base) + 1])

\* the eight 16-bit groups of a 16-byte address
Groups(ip) == [g \in 1..8 |-> ip[2 * g - 1] * 256 + ip[2 * g]]

\* number of zero groups from group g on
RECURSIVE ZeroRun(_, _)
ZeroRun(gs, g) == IF g > 8 \/ gs[g] # 0 THEN 0 ELSE 1 + ZeroRun(gs, g + 1)

\* the text of an IPv6 address: the first longest run of two or more zero
\* groups is written "::"
RECURSIVE String16(_, _, _, _)
String16(gs, g, zeroStart, zeroEnd) ==
    IF g > 8 THEN << >>
    ELSE IF g = zeroStart
         THEN <<":", ":">> \o
              (IF zeroEnd > 8 THEN << >>
               ELSE FormatUint(gs[zeroEnd], 16)
                    \o String16(gs, zeroEnd + 1, zeroStart, zeroEnd))
         ELSE (IF g > 1 THEN <<":">> ELSE << >>)
              \o FormatUint(gs[g], 16) \o String16(gs, g + 1, zeroStart, zeroEnd)

\* net.IP.String() of a 16-byte address
IPString(ip) ==
    LET gs == Groups(ip)
        runs == {g \in 1..8 : ZeroRun(gs, g) >= 2}
        best == CHOOSE g \in runs :
                    \A j \in runs : ZeroRun(gs, j) < ZeroRun(gs, g)
                                    \/ (ZeroRun(gs, j) = ZeroRun(gs, g) /\ g <= j)
        zeroStart == IF runs = {} THEN 0 ELSE best
        zeroEnd == IF runs = {} THEN 0 ELSE best + ZeroRun(gs, best)
    IN IF Take(ip, 12) = V4InV6Prefix
       THEN FormatUint(ip[13], 10) \o <<".">> \o FormatUint(ip[14], 10) \o <<".">>
            \o FormatUint(ip[15], 10) \o <<".">> \o FormatUint(ip[16], 10)
       ELSE String16(gs, 1, zeroStart, zeroEnd)

\* ex.FindIncomingIPAddress() of an Exchange that trusts the peer's host text
FindIncomingIPAddressRawHost(e) ==
    LET ipStr == HeaderValueLast(e, "X-Httpbun-Forwarded-For")
        hp == SplitHostPort(e.Request.RemoteAddr)
    IN IF ipStr # << >> THEN ipStr
       ELSE IF hp.err THEN << >>
       ELSE hp.host

\* ex.FindIncomingIPAddress()
FindIncomingIPAddress(e) ==
    LET ipStr == HeaderValueLast(e, "X-Httpbun-Forwarded-For")
        hp == SplitHostPort(e.Request.RemoteAddr)
        userIP == ParseIP(hp.host)
    IN IF ipStr # << >> THEN ipStr
       ELSE IF hp.err THEN << >>
       ELSE IF userIP.ok THEN IPString(userIP.ip)
       ELSE << >>

\* ------------------------------------------------- response primitives
\* ex.Write(content): fmt.Fprint(ex.ResponseWriter, content); a failed write
\* is only logged
ExWrite(rw, content) == Write(rw, Data("text", content, TextPlain))

\* ex.WriteBytes(content)
WriteBytes(rw, content) == Write(rw, Data("bytes", content, TextPlain))

\* fmt.Sprintf(content, vars...) for the verbs %s: each is replaced by the
\* next of vars, a verb without one by %!s(MISSING)
RECURSIVE Sprintf(_, _)
Sprintf(content, args) ==
    IF content = << >> THEN << >>
    ELSE IF content[1] = "%s"
         THEN (IF args = << >> THEN <<"%!s(MISSING)">> ELSE <<args[1]>>)
              \o Sprintf(Tail(content), IF args = << >> THEN args ELSE Tail(args))
    ELSE <<content[1]>> \o Sprintf(Tail(content), args)

\* ex.WriteF(content, vars...)
WriteF(rw, content, args) == ExWrite(rw, Sprintf(content, args))

\* ex.WriteLn(content)
WriteLn(rw, content) == ExWrite(ExWrite(rw, content), <<"\n">>)

\* ex.WriteJSON(data): the serialised data sniffs as plain text
WriteJSON(rw, data) ==
    Write(HeaderSet(rw, "Content-Type", ApplicationJSON),
          Data("json", data, TextPlain))

\* ex.Redirect(target)
Redirect(e, rw, target) ==
    LET t == IF HasPrefix(target, <<"/">>)
             THEN e.ServerSpec.PathPrefix \o target ELSE target
        a == HeaderSet(rw, "Location", t)
        b == WriteHeader(a, 302)
    IN Write(b, Data("html", t, TextHTML))

\* http.StatusText(code)
StatusText(code) ==
    CASE code = 200 -> <<"OK">>
      [] code = 400 -> <<"Bad Request">>
      [] code = 404 -> <<"Not Found">>
      [] code = 500 -> <<"Internal Server Error">>
      [] OTHER -> << >>

\* ex.RespondWithStatus(errorStatus)
RespondWithStatus(rw, errorStatus) ==
    WriteLn(WriteHeader(rw, errorStatus), StatusText(errorStatus))

\* ex.RespondBadRequest(message)
RespondBadRequest(rw, message, args) ==
    WriteBytes(WriteF(WriteHeader(rw, 400), message, args), <<"\n">>)

\* ex.RespondError(status, code, detail)
RespondError(rw, status, code, detail) ==
    WriteJSON(WriteHeader(rw, status), <<"error", code, detail>>)

\* ------------------------------------------------------------- dispatcher
PathChars == {"/", "a", "b"}

Paths == SeqsUpTo(PathChars, MaxPathLen)

Prefixes == {<< >>, <<"/", "a">>, <<"/", "b">>}

Specs == {[PathPrefix |-> p, Commit |-> <<"c0ffee">>] : p \in Prefixes}

Route(p, fn) == [Pat |-> p, Fn |-> fn]

RouteA == Route(Pat(TRUE, <<Lit("/"), Lit("a")>>, TRUE), "handleA")

\* ^/a$, ^/(?P<id>[^/]+)$ and the unanchored ([^/]+)b
RoutePool ==
    {RouteA,
     Route(Pat(TRUE, <<Lit("/"), Cap("id")>>, TRUE), "handleId"),
     Route(Pat(FALSE, <<Grp, Lit("b")>>, FALSE), "handleB")}

\* the route tables: the ordered selections of routes of the pool
RouteTables ==
    {t \in SeqsUpTo(RoutePool, MaxRoutes) :
        \A i, j \in DOMAIN t : i # j => t[i] # t[j]}

PlainAddr == <<"1", "0", ".", "0", ".", "0", ".", "7", ":", "8", "0">>

BaseRequest ==
    [Path |-> <<"/", "a">>, URLHost |-> << >>, Host |-> <<"h.example">>,
     Header |-> NoReqHeaders, RemoteAddr |-> PlainAddr]

OriginA == <<"https://a.example">>

OriginB == <<"https://b.example">>

\* every path, without and with an Origin header
PathRequests ==
    {[BaseRequest EXCEPT !.Path = p, !.Header["Origin"] = o] :
        p \in Paths, o \in {<< >>, <<OriginA>>}}

\* every list of Origin values, on a few paths
OriginRequests ==
    {[BaseRequest EXCEPT !.Path = p, !.Header["Origin"] = o] :
        p \in {<<"/", "a">>, <<"/", "b", "/", "a">>, <<"/">>},
        o \in SeqsUpTo({OriginA, OriginB, << >>}, MaxHeaderValues)}

PreflightRequests ==
    {[BaseRequest EXCEPT !.URLHost = h,
                         !.Header["Access-Control-Request-Headers"] = a,
                         !.Header["Access-Control-Request-Method"] = a] :
        h \in {<< >>, <<"u.example">>}, a \in {<< >>, <<<<"X-A">>, <<"X-B">>>>}}

AddrSamples ==
    {PlainAddr,
     << >>,
     <<"1", "0", ".", "0", ".", "0", ".", "7">>,
     <<"1", "0", ".", "0", ".", "0", ".", "7", ":">>,
     <<"0", "1", "0", ".", "0", ".", "0", ".", "7", ":", "8", "0">>,
     <<"2", "5", "6", ".", "0", ".", "0", ".", "7", ":", "8", "0">>,
     <<"1", "0", ".", "0", ".", "7", ":", "8", "0">>,
     <<"h", "o", "s", "t", ":", "8", "0">>,
     <<":", "8", "0">>,
     <<":", ":", "1", ":", "8", "0">>,
     <<"[", ":", ":", "1", "]", ":", "8", "0">>,
     <<"[", ":", ":", "1", "]">>,
     <<"[", ":", ":", "1", ":", "8", "0">>,
     <<"[", ":", ":", "1", "]", "8", ":", "0">>,
     <<"[", "f", "e", "8", "0", ":", ":", "1", "%", "e", "]", ":", "8", "0">>,
     <<"[", "0", ":", "0", ":", "0", ":", "0", ":", "0", ":", "0", ":", "0",
       ":", "1", "]", ":", "8", "0">>,
     <<"[", ":", ":", "f", "f", "f", "f", ":", "1", "0", ".", "0", ".", "0",
       ".", "7", "]", ":", "8", "0">>,
     <<"[", "2", "0", "0", "1", ":", "D", "B", "8", ":", ":", "1", "]", ":",
       "8", "0">>,
     <<"[", "1", ":", "0", ":", "0", ":", "2", ":", "0", ":", "0", ":", "0",
       ":", "3", "]", ":", "8", "0">>,
     <<"[", "1", ":", ":", "2", ":", ":", "3", "]", ":", "8", "0">>}

Forwarded == <<"9", ".", "9", ".", "9", ".", "9">>

\* every peer address, with every list of forwarded-for values
AddrRequests ==
    {[BaseRequest EXCEPT !.RemoteAddr = a,
                         !.Header["X-Httpbun-Forwarded-For"] = f] :
        a \in AddrSamples,
        f \in SeqsUpTo({Forwarded, << >>}, MaxHeaderValues)}

Requests ==
    PathRequests \cup OriginRequests \cup PreflightRequests \cup AddrRequests

NoRequest == [BaseRequest EXCEPT !.Path = << >>]

NoExchange ==
    [Request |-> NoRequest, Fields |-> << >>,
     URL |-> [Path |-> << >>, Host |-> << >>],
     ServerSpec |-> [PathPrefix |-> << >>, Commit |-> << >>]]

NoPrim == [op |-> "none", fresh |-> FALSE, first |-> 0, status |-> 0]

\* the response as the client gets it: net/http commits 200 and the headers
\* when the handler returns without having written anything
FinishRequest(rw) == IF rw.wroteHeader THEN rw ELSE WriteHeader(rw, 200)

DispatchInit ==
    /\ spec \in Specs
    /\ routes \in RouteTables
    /\ pc = "idle"
    /\ req = NoRequest
    /\ w = NewResponseWriter
    /\ ex = NoExchange
    /\ ri = 0
    /\ invoked = << >>
    /\ incomingIP = << >>
    /\ prim = NoPrim
    /\ nops = 0

\* net/http hands a request and a fresh ResponseWriter to ServeHTTP
Receive(r) ==
    /\ pc = "idle"
    /\ req' = r
    /\ w' = NewResponseWriter
    /\ pc' = "serve"
    /\ UNCHANGED <<spec, routes, ex, ri, invoked, incomingIP, prim, nops>>

\* the response is out and the request's goroutine ends; nothing of the
\* request outlives it
EndRequest ==
    /\ pc = "done"
    /\ req' = NoRequest
    /\ w' = NewResponseWriter
    /\ ex' = NoExchange
    /\ ri' = 0
    /\ invoked' = << >>
    /\ incomingIP' = << >>
    /\ prim' = NoPrim
    /\ nops' = 0
    /\ pc' = "idle"
    /\ UNCHANGED <<spec, routes>>

\* ServeHTTP: the path lacks the prefix
PrefixReject ==
    /\ pc = "serve"
    /\ ~HasPrefix(req.Path, spec.PathPrefix)
    /\ w' = NotFound(w)
    /\ pc' = "done"
    /\ UNCHANGED <<spec, routes, req, ex, ri, invoked, incomingIP, prim, nops>>

\* ServeHTTP: exchange.New and ex.FindIncomingIPAddress()
NewExchange ==
    /\ pc = "serve"
    /\ HasPrefix(req.Path, spec.PathPrefix)
    /\ LET n == New(w, req, spec)
       IN /\ ex' = n.ex
          /\ w' = n.w
          /\ incomingIP' = FindIncomingIPAddress(n.ex)
    /\ ri' = 1
    /\ pc' = "route"
    /\ UNCHANGED <<spec, routes, req, invoked, prim, nops>>

\* ServeHTTP: the route at ri does not match, the loop goes on
RouteMiss ==
    /\ pc = "route"
    /\ ri <= Len(routes)
    /\ ~MatchAndLoadFields(ex, routes[ri].Pat).ok
    /\ ri' = ri + 1
    /\ UNCHANGED <<spec, routes, pc, req, w, ex, invoked, incomingIP, prim, nops>>

\* ServeHTTP without the return after route.Fn(ex)
RouteHitNoReturn ==
    /\ pc = "route"
    /\ ri <= Len(routes)
    /\ LET m == MatchAndLoadFields(ex, routes[ri].Pat)
       IN /\ m.ok
          /\ ex' = [ex EXCEPT !.Fields = m.Fields]
    /\ invoked' = Append(invoked, routes[ri].Fn)
    /\ ri' = ri + 1
    /\ UNCHANGED <<spec, routes, pc, req, w, incomingIP, prim, nops>>

\* ServeHTTP: the route at ri matches, its handler is called
RouteHit ==
    /\ pc = "route"
    /\ ri <= Len(routes)
    /\ LET m == MatchAndLoadFields(ex, routes[ri].Pat)
       IN /\ m.ok
          /\ ex' = [ex EXCEPT !.Fields = m.Fields]
    /\ invoked' = Append(invoked, routes[ri].Fn)
    /\ pc' = "handler"
    /\ UNCHANGED <<spec, routes, req, w, ri, incomingIP, prim, nops>>

\* ServeHTTP: no route matched
NoRoute ==
    /\ pc = "route"
    /\ ri > Len(routes)
    /\ w' = NotFound(w)
    /\ pc' = "done"
    /\ UNCHANGED <<spec, routes, req, ex, ri, invoked, incomingIP, prim, nops>>

\* the handler calls one response primitive
Respond(op, status, rw) ==
    /\ pc = "handler"
    /\ nops < MaxHandlerOps
    /\ prim' = [op |-> op, fresh |-> ~w.wroteHeader,
                first |-> Len(w.events) + 1, status |-> status]
    /\ w' = rw
    /\ nops' = nops + 1
    /\ UNCHANGED <<spec, routes, pc, req, ex, ri, invoked, incomingIP>>

\* the handler writes content without choosing a status
CallWrite == Respond("Write", 200, ExWrite(w, <<"x">>))

CallWriteLn == Respond("WriteLn", 200, WriteLn(w, <<"x">>))

CallWriteBytes == Respond("WriteBytes", 200, WriteBytes(w, <<"x">>))

CallWriteF ==
    \E args \in {<< >>, <<"v">>} :
        Respond("WriteF", 200, WriteF(w, <<"x", "=", "%s">>, args))

CallRedirect ==
    \E target \in {<<"/", "x">>, <<"http://e.example/">>} :
        Respond("Redirect", 302, Redirect(ex, w, target))

CallWriteJSON == Respond("WriteJSON", 200, WriteJSON(w, <<"data">>))

CallRespondWithStatus ==
    \E code \in {200, 404} :
        Respond("RespondWithStatus", code, RespondWithStatus(w, code))

CallRespondBadRequest ==
    \E args \in {<< >>, <<"v">>} :
        Respond("RespondBadRequest", 400,
                RespondBadRequest(w, <<"bad", " ", "%s">>, args))

CallRespondError ==
    \E status \in {400, 500} :
        Respond("RespondError", status,
                RespondError(w, status, <<"code">>, <<"detail">>))

\* the handler returns, ServeHTTP returns, net/http finishes the response
HandlerReturn ==
    /\ pc = "handler"
    /\ w' = FinishRequest(w)
    /\ pc' = "done"
    /\ UNCHANGED <<spec, routes, req, ex, ri, invoked, incomingIP, prim, nops>>

ExchangeInit ==
    /\ xtls = FALSE
    /\ xreq = 0
    /\ xlr = 0
    /\ xreads = << >>
    /\ xlast = 0

LifecycleInit ==
    /\ srv = 0
    /\ servePc = 0
    /\ serveErr = 0
    /\ closeCh = 0
    /\ sends = 0
    /\ prog = 0
    /\ cpc = 0
    /\ timer = 0
    /\ shutErr = 0
    /\ closed = 0
    /\ waits = 0

Init == DispatchInit /\ ExchangeInit /\ LifecycleInit

\* the dispatcher, with the handlers as black boxes
Next ==
    \/ \E r \in Requests : Receive(r) /\ UNCHANGED <<xvars, lvars>>
    \/ PrefixReject /\ UNCHANGED <<xvars, lvars>>
    \/ NewExchange /\ UNCHANGED <<xvars, lvars>>
    \/ RouteMiss /\ UNCHANGED <<xvars, lvars>>
    \/ RouteHit /\ UNCHANGED <<xvars, lvars>>
    \/ NoRoute /\ UNCHANGED <<xvars, lvars>>
    \/ HandlerReturn /\ UNCHANGED <<xvars, lvars>>
    \/ EndRequest /\ UNCHANGED <<xvars, lvars>>

Spec == Init /\ [][Next]_vars

\* ---------------------------------------------- handlers that respond
\* The dispatcher has called handleA for a request for <prefix>/a: the state
\* is the one RouteHit leaves, for each configured prefix and Origin header.
RespondInit ==
    /\ spec \in Specs
    /\ routes = <<RouteA>>
    /\ \E o \in {<< >>, <<OriginA>>} :
          req = [BaseRequest EXCEPT !.Path = spec.PathPrefix \o <<"/", "a">>,
                                    !.Header["Origin"] = o]
    /\ LET n == New(NewResponseWriter, req, spec)
       IN /\ ex = [n.ex EXCEPT
                      !.Fields = MatchAndLoadFields(n.ex, RouteA.Pat).Fields]
          /\ w = n.w
          /\ incomingIP = FindIncomingIPAddress(n.ex)
    /\ ri = 1
    /\ invoked = <<"handleA">>
    /\ pc = "handler"
    /\ prim = NoPrim
    /\ nops = 0

RespondStart == RespondInit /\ ExchangeInit /\ LifecycleInit

RespondNext ==
    \/ CallWrite /\ UNCHANGED <<xvars, lvars>>
    \/ CallWriteLn /\ UNCHANGED <<xvars, lvars>>
    \/ CallWriteBytes /\ UNCHANGED <<xvars, lvars>>
    \/ CallWriteF /\ UNCHANGED <<xvars, lvars>>
    \/ CallRedirect /\ UNCHANGED <<xvars, lvars>>
    \/ CallWriteJSON /\ UNCHANGED <<xvars, lvars>>
    \/ CallRespondWithStatus /\ UNCHANGED <<xvars, lvars>>
    \/ CallRespondBadRequest /\ UNCHANGED <<xvars, lvars>>
    \/ CallRespondError /\ UNCHANGED <<xvars, lvars>>
    \/ HandlerReturn /\ UNCHANGED <<xvars, lvars>>

RespondSpec == RespondStart /\ [][RespondNext]_vars

\* ------------------------------------------------------ dispatcher claims
PassesPrefix == HasPrefix(req.Path, spec.PathPrefix)

\* whether routes[i] matches the path the dispatcher derives for the request
RouteMatches(i) ==
    FindStringSubmatch(routes[i].Pat, TrimPrefix(req.Path, spec.PathPrefix)).ok

MatchingRoutes == {i \in DOMAIN routes : PassesPrefix /\ RouteMatches(i)}

OriginOf(r) ==
    IF r.Header["Origin"] = << >> THEN << >>
    ELSE r.Header["Origin"][Len(r.Header["Origin"])]

\* C1: for every request and route table at most one handler is invoked, it
\* is the handler of the earliest route whose pattern matches the derived
\* path, and when no route matches or the path lacks the prefix no handler is
\* invoked and the response is 404.
C1_FirstMatchWins ==
    /\ Len(invoked) <= 1
    /\ invoked # << >> =>
          /\ MatchingRoutes # {}
          /\ \E i \in MatchingRoutes :
                /\ routes[i].Fn = invoked[1]
                /\ \A j \in MatchingRoutes : i <= j
    /\ pc = "done" =>
          /\ invoked = << >> <=> MatchingRoutes = {}
          /\ MatchingRoutes = {} => w.status = 404 /\ w.wroteHeader

\* C1 witness: a request matched by both routes of the table was served by the first
C1_Witness ==
    /\ pc = "done"
    /\ Len(routes) = 2
    /\ MatchingRoutes = {1, 2}
    /\ invoked = <<routes[1].Fn>>

\* C2 as claimed: for every request with an Origin header, on every path of
\* the dispatcher (prefix rejection included), the response carries
\* Access-Control-Allow-Origin equal to the Origin value and
\* Access-Control-Allow-Credentials "true".
C2_Original ==
    pc = "done" /\ req.Header["Origin"] # << >> =>
        /\ w.sent["Access-Control-Allow-Origin"] = <<OriginOf(req)>>
        /\ w.sent["Access-Control-Allow-Credentials"] = <<<<"true">>>>

\* C2 amended: for every request that passes the prefix check and whose last
\* Origin value is not empty, both headers are set (to that value, never "*",
\* and to "true") before any handler runs and are part of the response,
\* whether a handler ran or no route matched; a request rejected by the
\* prefix check gets neither header.
C2_CorsAfterPrefixCheck ==
    /\ pc \in {"route", "handler", "done"} /\ PassesPrefix /\ OriginOf(req) # << >> =>
          /\ w.header["Access-Control-Allow-Origin"] = <<OriginOf(req)>>
          /\ w.header["Access-Control-Allow-Origin"] # <<<<"*">>>>
          /\ w.header["Access-Control-Allow-Credentials"] = <<<<"true">>>>
    /\ pc = "done" /\ PassesPrefix /\ OriginOf(req) # << >> =>
          /\ w.sent["Access-Control-Allow-Origin"] = <<OriginOf(req)>>
          /\ w.sent["Access-Control-Allow-Credentials"] = <<<<"true">>>>
    /\ pc = "done" /\ ~PassesPrefix =>
          /\ w.sent["Access-Control-Allow-Origin"] = << >>
          /\ w.sent["Access-Control-Allow-Credentials"] = << >>

\* C2 witness: a handler is about to run for a request with two Origin values, and the
\* headers are already set from the last one
C2_Witness ==
    /\ pc = "handler"
    /\ req.Header["Origin"] = <<OriginA, OriginB>>
    /\ w.header["Access-Control-Allow-Origin"] = <<OriginB>>
    /\ ~w.wroteHeader

\* C6 as claimed: for every request that passes the prefix check with a
\* non-empty prefix, the derived path does not contain the prefix.
C6_Original ==
    pc \in {"route", "handler"} /\ spec.PathPrefix # << >> =>
        ~Contains(ex.URL.Path, spec.PathPrefix)

\* C6 amended: for every request that passes the prefix check with a
\* non-empty prefix, the derived path is the incoming path with exactly one
\* leading occurrence of the prefix removed; it contains the prefix exactly
\* when the incoming path holds another occurrence after the leading one.
C6_OnePrefixStripped ==
    pc \in {"route", "handler"} /\ spec.PathPrefix # << >> =>
        /\ spec.PathPrefix \o ex.URL.Path = req.Path
        /\ Contains(ex.URL.Path, spec.PathPrefix)
             <=> IndexFrom(req.Path, spec.PathPrefix, Len(spec.PathPrefix) + 1) # 0

\* C6 witness: a path that repeats the prefix was derived, and still starts with it
C6_Witness ==
    /\ pc = "route"
    /\ spec.PathPrefix = <<"/", "a">>
    /\ req.Path = <<"/", "a", "/", "a">>
    /\ ex.URL.Path = <<"/", "a">>

ForwardedFor == req.Header["X-Httpbun-Forwarded-For"]

PeerHost == SplitHostPort(req.RemoteAddr)

\* C7 as claimed: FindIncomingIPAddress returns the last forwarded-for value
\* when it is not empty; with the header absent it returns the host part of
\* the peer address when that is a well-formed IP literal, and the empty
\* string when the peer address is malformed or its host is no IP literal.
C7_Original ==
    pc \in {"route", "handler"} =>
        /\ OriginOf([Header |-> [Origin |-> ForwardedFor]]) # << >> =>
              incomingIP = ForwardedFor[Len(ForwardedFor)]
        /\ ForwardedFor = << >> /\ ~PeerHost.err /\ ParseIP(PeerHost.host).ok =>
              incomingIP = PeerHost.host
        /\ ForwardedFor = << >> /\ (PeerHost.err \/ ~ParseIP(PeerHost.host).ok) =>
              incomingIP = << >>

\* C7 amended: as claimed, except that for a well-formed IP literal the
\* result is the canonical text of that address (it parses to the same
\* address as the host part and is what net.IP.String gives for it), which
\* differs from the host part when the peer wrote the address another way.
C7_CanonicalPeerIP ==
    pc \in {"route", "handler"} =>
        /\ OriginOf([Header |-> [Origin |-> ForwardedFor]]) # << >> =>
              incomingIP = ForwardedFor[Len(ForwardedFor)]
        /\ ForwardedFor = << >> /\ ~PeerHost.err /\ ParseIP(PeerHost.host).ok =>
              /\ ParseIP(incomingIP) = ParseIP(PeerHost.host)
              /\ IPString(ParseIP(incomingIP).ip) = incomingIP
        /\ ForwardedFor = << >> /\ (PeerHost.err \/ ~ParseIP(PeerHost.host).ok) =>
              incomingIP = << >>

\* C7 witness: the peer address [::ffff:10.0.0.7]:80 without a forwarded-for header
\* gave 10.0.0.7
C7_Witness ==
    /\ pc = "route"
    /\ ForwardedFor = << >>
    /\ ~PeerHost.err
    /\ PeerHost.host # incomingIP
    /\ incomingIP = <<"1", "0", ".", "0", ".", "0", ".", "7">>

\* the events of the response sink since the last call of the handler began
PrimEvents == Drop(w.events, prim.first - 1)

\* the response-emission primitives C10 is about
EmissionPrimitives ==
    {"Redirect", "WriteJSON", "RespondWithStatus", "RespondBadRequest",
     "RespondError"}

\* C10: in every response primitive, called on a response nothing was
\* committed of, each header the primitive sets is set before the status is
\* committed, the status is committed at most once and before the first body
\* write, so no header is dropped: a RespondError response carries
\* Content-Type application/json with the requested status.
C10_HeadersBeforeStatus ==
    prim.op \in EmissionPrimitives /\ prim.fresh =>
        /\ \A i, j \in DOMAIN PrimEvents :
              PrimEvents[i].e = "set" /\ PrimEvents[j].e = "commit" => i < j
        /\ Cardinality({i \in DOMAIN PrimEvents :
                           PrimEvents[i].e \in {"commit", "superfluous"}}) <= 1
        /\ \A i, j \in DOMAIN PrimEvents :
              PrimEvents[i].e = "commit" /\ PrimEvents[j].e = "write" => i < j
        /\ \A i \in DOMAIN PrimEvents :
              PrimEvents[i].e = "set" =>
                  w.sent[PrimEvents[i].k] = w.header[PrimEvents[i].k]
        /\ prim.op = "RespondError" =>
              /\ w.status = prim.status
              /\ w.sent["Content-Type"] = <<ApplicationJSON>>

\* --------------------------------------------------- Exchange accessors
BodyCap == 10000

ReadAllChunk == 512

\* a body: its length, the offset at which reading it fails, NoFail for a
\* body read to its end, and what reading it gives after the failure: the
\* error again (Again: a connection that was reset) or the end of the
\* stream (a body shorter than its Content-Length: net/http gives
\* io.ErrUnexpectedEOF once, then io.EOF)
NoFail == 0 - 1

NilError == << >>

EOF == <<"EOF">>

ErrBody == <<"body read error">>

\* Request.Body.Read(p) with len(p) = n, the body being read up to pos and
\* failed telling whether a read of it failed already: the number of bytes
\* read, the error, and whether a read has failed after the call
BodyRead(body, pos, failed, n) ==
    IF body.FailAt = pos
    THEN IF failed /\ ~body.Again
         THEN [n |-> 0, err |-> EOF, failed |-> TRUE]
         ELSE [n |-> 0, err |-> ErrBody, failed |-> TRUE]
    ELSE IF pos >= body.Len THEN [n |-> 0, err |-> EOF, failed |-> failed]
    ELSE LET end == IF body.FailAt > pos THEN body.FailAt ELSE body.Len
         IN [n |-> Min(n, end - pos), err |-> NilError, failed |-> failed]

LimitedReaderReadNoCap(lr, body, n) ==
    LET r == BodyRead(body, lr.pos, lr.failed, n)
    IN [n |-> r.n, err |-> r.err,
        lr |-> [N |-> lr.N - r.n, pos |-> lr.pos + r.n, failed |-> r.failed]]

\* (*io.LimitedReader).Read(p) with len(p) = n: the number of bytes read, the
\* error and the reader (with the body under it) after the call
LimitedReaderRead(lr, body, n) ==
    IF lr.N <= 0 THEN [n |-> 0, err |-> EOF, lr |-> lr]
    ELSE LET m == IF n > lr.N THEN lr.N ELSE n
             r == BodyRead(body, lr.pos, lr.failed, m)
         IN [n |-> r.n, err |-> r.err,
             lr |-> [N |-> lr.N - r.n, pos |-> lr.pos + r.n,
                     failed |-> r.failed]]

\* io.ReadAll(ex.CappedBody): reads chunk after chunk until a read gives an
\* error, and EOF is no error; the bytes are those of the body from offset
\* from, len of them
RECURSIVE ReadAll(_, _, _)
ReadAll(lr, body, acc) ==
    LET r == LimitedReaderRead(lr, body, ReadAllChunk)
        got == [acc EXCEPT !.len = @ + r.n]
    IN IF r.err = EOF THEN [bytes |-> got, err |-> NilError, lr |-> r.lr]
       ELSE IF r.err # NilError THEN [bytes |-> got, err |-> r.err, lr |-> r.lr]
       ELSE ReadAll(r.lr, body, got)

\* ex.BodyBytes(): the bytes returned (nil when a read failed: the bytes read
\* until then are dropped), and the capped reader after the call
BodyBytes(lr, body) ==
    LET r == ReadAll(lr, body, [from |-> lr.pos, len |-> 0])
    IN IF r.err # NilError
       THEN [bytes |-> [from |-> lr.pos, len |-> 0, nil |-> TRUE], lr |-> r.lr]
       ELSE [bytes |-> [from |-> r.bytes.from, len |-> r.bytes.len,
                        nil |-> FALSE],
             lr |-> r.lr]

ParamNames == {"x", "y"}

ParamValues == {<<"1">>, <<"2">>}

\* the text k1=v1&k2=v2... of a list of parameters
RECURSIVE EncodeQuery(_)
EncodeQuery(ps) ==
    IF ps = << >> THEN << >>
    ELSE (IF Len(ps) > 1 THEN EncodeQuery(Take(ps, Len(ps) - 1)) \o <<"&">>
          ELSE << >>)
         \o <<ps[Len(ps)][1], "=">> \o ps[Len(ps)][2]

\* the segments of s between the separators sep
RECURSIVE Split(_, _)
Split(s, sep) ==
    LET i == IndexByte(s, sep)
    IN IF i = 0 THEN <<s>>
       ELSE <<Take(s, i - 1)>> \o Split(Drop(s, i), sep)

\* url.ParseQuery as Request.URL.Query() uses it: the values of each name in
\* their order in the text; empty segments are skipped, a segment without
\* "=" is a name with the value ""
Query(rawQuery) ==
    LET segs == SelectSeq(Split(rawQuery, "&"), LAMBDA g : g # << >>)
        key(g) == IF IndexByte(g, "=") = 0 THEN g ELSE Take(g, IndexByte(g, "=") - 1)
        val(g) == IF IndexByte(g, "=") = 0 THEN << >> ELSE Drop(g, IndexByte(g, "="))
        of(name) == SelectSeq(segs, LAMBDA g : key(g) = <<name>>)
    IN [name \in ParamNames |-> [k \in 1..Len(of(name)) |-> val(of(name)[k])]]


Values(v, e) == [value |-> v, err |-> e]

singleParamValueFirst(args, name) ==
    IF Len(args[name]) = 0
    THEN Values(<< >>, <<"missing required param ", name>>)
    ELSE Values(args[name][1], NilError)

\* singleParamValue(args, name)
singleParamValue(args, name) ==
    IF Len(args[name]) = 0
    THEN Values(<< >>, <<"missing required param ", name>>)
    ELSE IF Len(args[name]) > 1
         THEN Values(<< >>, <<"too many values for param ", name,
                             ", expected only one">>)
         ELSE Values(args[name][1], NilError)

\* ex.QueryParamSingle(name)
QueryParamSingle(e, name) == singleParamValue(Query(e.Request.RawQuery), name)

\* ex.FormParamSingle(name)
FormParamSingle(e, name) == singleParamValue(e.Request.Form, name)

\* ex.FindScheme(), tls being os.Getenv("HTTPBUN_SSL_CERT") != ""
FindScheme(e, tls) ==
    LET forwardedProto == HeaderValueLast(e, "X-Httpbun-Forwarded-Proto")
    IN IF forwardedProto # << >> THEN forwardedProto
       ELSE IF tls \/ HeaderValueLast(e, "X-Httpbun-Forwarded-Proto") = <<"https">>
            THEN <<"https">>
       ELSE <<"http">>

NilForm == [name \in ParamNames |-> << >>]

XBase ==
    [Header |-> NoReqHeaders, RawQuery |-> << >>, Form |-> NilForm,
     Body |-> [Len |-> 0, FailAt |-> NoFail, Again |-> FALSE]]

ProtoRequests ==
    {[XBase EXCEPT !.Header["X-Httpbun-Forwarded-Proto"] = h] :
        h \in SeqsUpTo({<<"https">>, <<"http">>, <<"ftp">>, << >>}, MaxHeaderValues)}

Params == SeqsUpTo(ParamNames \X ParamValues, MaxParams)

QueryRequests ==
    {[XBase EXCEPT !.RawQuery = q] :
        q \in {EncodeQuery(ps) : ps \in Params}
              \cup {<<"x">>, <<"x", "=">>, <<"&", "&", "x", "=", "1", "&">>}}

\* Request.Form after ParseForm: the values of each name
FormRequests ==
    {[XBase EXCEPT !.Form = f] : f \in [ParamNames -> SeqsUpTo(ParamValues, MaxParams)]}

BodyLens ==
    {0, 1, ReadAllChunk, BodyCap - 1, BodyCap, BodyCap + 1, 2 * BodyCap + 1}

FailOffsets == {NoFail, 0, 600, BodyCap - 1, BodyCap, BodyCap + 1}

Bodies ==
    {b \in [Len : BodyLens, FailAt : FailOffsets, Again : BOOLEAN] :
        /\ b.FailAt <= b.Len
        /\ b.FailAt = NoFail => ~b.Again}

BodyRequests == {[XBase EXCEPT !.Body = b] : b \in Bodies}

XRequests == ProtoRequests \cup QueryRequests \cup FormRequests \cup BodyRequests

NoCall == [op |-> "none", name |-> "", value |-> << >>, err |-> NilError]

XExchange == [Request |-> xreq]

\* an Exchange as exchange.New leaves it: nothing read of the body yet
AccessorInit ==
    /\ xtls \in BOOLEAN
    /\ xreq \in XRequests
    /\ xlr = [N |-> BodyCap, pos |-> 0, failed |-> FALSE]
    /\ xreads = << >>
    /\ xlast = NoCall

\* the handler calls ex.BodyBytes() or ex.BodyString()
\* ex.BodyString(): string(ex.BodyBytes()); the string of nil is "", a
\* string is never nil
BodyString(lr, body) ==
    LET r == BodyBytes(lr, body)
    IN [bytes |-> [r.bytes EXCEPT !.nil = FALSE], lr |-> r.lr]

CallBodyBytes(op) ==
    /\ Len(xreads) < MaxReads
    /\ LET r == IF op = "BodyString" THEN BodyString(xlr, xreq.Body)
                ELSE BodyBytes(xlr, xreq.Body)
       IN /\ xlr' = r.lr
          /\ xreads' = Append(xreads, [op |-> op, from |-> r.bytes.from,
                                       len |-> r.bytes.len, nil |-> r.bytes.nil])
    /\ xlast' = [NoCall EXCEPT !.op = op]
    /\ UNCHANGED <<xtls, xreq>>

CallFindScheme ==
    /\ xlast' = [NoCall EXCEPT !.op = "FindScheme",
                               !.value = FindScheme(XExchange, xtls)]
    /\ UNCHANGED <<xtls, xreq, xlr, xreads>>

CallQueryParamSingle(name) ==
    /\ LET r == QueryParamSingle(XExchange, name)
       IN xlast' = [op |-> "QueryParamSingle", name |-> name,
                    value |-> r.value, err |-> r.err]
    /\ UNCHANGED <<xtls, xreq, xlr, xreads>>

CallFormParamSingle(name) ==
    /\ LET r == FormParamSingle(XExchange, name)
       IN xlast' = [op |-> "FormParamSingle", name |-> name,
                    value |-> r.value, err |-> r.err]
    /\ UNCHANGED <<xtls, xreq, xlr, xreads>>

DispatchIdle ==
    /\ spec = [PathPrefix |-> << >>, Commit |-> <<"c0ffee">>]
    /\ routes = << >>
    /\ pc = "idle"
    /\ req = NoRequest
    /\ w = NewResponseWriter
    /\ ex = NoExchange
    /\ ri = 0
    /\ invoked = << >>
    /\ incomingIP = << >>
    /\ prim = NoPrim
    /\ nops = 0

AccessorNext ==
    \/ \E op \in {"BodyBytes", "BodyString"} :
          CallBodyBytes(op) /\ UNCHANGED <<dvars, lvars>>
    \/ CallFindScheme /\ UNCHANGED <<dvars, lvars>>
    \/ \E name \in ParamNames :
          CallQueryParamSingle(name) /\ UNCHANGED <<dvars, lvars>>
    \/ \E name \in ParamNames :
          CallFormParamSingle(name) /\ UNCHANGED <<dvars, lvars>>

AccessorStart == DispatchIdle /\ AccessorInit /\ LifecycleInit

AccessorSpec == AccessorStart /\ [][AccessorNext]_vars

\* ---------------------------------------------------- accessor claims
RECURSIVE SumLen(_)
SumLen(rs) == IF rs = << >> THEN 0 ELSE rs[1].len + SumLen(Tail(rs))

\* a read of the body fails before the cap is reached
ReadFails == xreq.Body.FailAt # NoFail /\ xreq.Body.FailAt < 10000

\* C5 as claimed: for every body and every sequence of BodyBytes /
\* BodyString calls on one Exchange the bytes returned never total more
\* than 10,000: the first call returns the first min(length, 10000) bytes of
\* the body and every later call returns none.
C5_Original ==
    /\ SumLen(xreads) <= 10000
    /\ xreads # << >> =>
          /\ xreads[1].from = 0
          /\ xreads[1].len = Min(xreq.Body.Len, 10000)
    /\ \A i \in 2..Len(xreads) : xreads[i].len = 0

\* C5 amended: the bytes returned never total more than 10,000; when no read
\* of the body fails before the cap is reached, the first call returns the
\* first min(length, 10000) bytes and every later call returns none; when
\* one does, every call returns no bytes, the bytes read before the failure
\* being dropped: BodyString returns "", BodyBytes returns nil on the first
\* call and, later, nil while reading keeps failing and an empty slice once
\* the body reports its end.
C5_BodyCapped ==
    /\ SumLen(xreads) <= 10000
    /\ xlr.pos <= 10000 /\ xlr.N = 10000 - xlr.pos
    /\ \A i \in DOMAIN xreads : xreads[i].op = "BodyString" => ~xreads[i].nil
    /\ ~ReadFails =>
          /\ xreads # << >> =>
                /\ xreads[1].from = 0
                /\ xreads[1].len = Min(xreq.Body.Len, 10000)
                /\ ~xreads[1].nil
          /\ \A i \in 2..Len(xreads) : xreads[i].len = 0 /\ ~xreads[i].nil
    /\ ReadFails =>
          /\ \A i \in DOMAIN xreads : xreads[i].len = 0
          /\ xreads # << >> =>
                /\ xreads[1].op = "BodyBytes" => xreads[1].nil
                /\ xlr.pos = xreq.Body.FailAt /\ xlr.failed
          /\ \A i \in 2..Len(xreads) :
                xreads[i].op = "BodyBytes" =>
                    (xreads[i].nil <=> xreq.Body.Again)

\* C5 witness: a body of more than 10,000 bytes, no read of which fails below
\* the cap, was read twice: 10,000 bytes, then none
C5_Witness ==
    /\ xreq.Body.Len > 10000
    /\ ~ReadFails
    /\ Len(xreads) = 2
    /\ xreads[1].len = 10000
    /\ xreads[2].len = 0

\* the last value of the forwarded-proto header, read off the request
ForwardedProto ==
    LET h == xreq.Header["X-Httpbun-Forwarded-Proto"]
    IN IF h = << >> THEN << >> ELSE h[Len(h)]

\* C8: FindScheme returns "https" or "http": "https" exactly when the
\* forwarded-proto header says "https", or when the header gives no value
\* and TLS is configured; "http" in every other case.
C8_SchemeHttpOrHttps ==
    xlast.op = "FindScheme" =>
        /\ xlast.value \in {<<"https">>, <<"http">>}
        /\ xlast.value = <<"https">>
             <=> \/ ForwardedProto = <<"https">>
                 \/ ForwardedProto = << >> /\ xtls

\* the values of name in the text of the query, counted separately from
\* Query: the segments name=... between the "&"
NameStarts(name) ==
    LET q == xreq.RawQuery
    IN {i \in 1..Len(q) :
           /\ q[i] = name
           /\ i = 1 \/ q[i - 1] = "&"
           /\ i = Len(q) \/ q[i + 1] \in {"=", "&"}}

ValuesInQuery(name) == Cardinality(NameStarts(name))

\* the text between the "=" of the segment starting at i and the next "&"
ValueAt(i) ==
    LET q == xreq.RawQuery
        amp == IndexFrom(q, <<"&">>, i)
    IN SubSeq(q, i + 2, IF amp = 0 THEN Len(q) ELSE amp - 1)

IsMissing(err, name) == err = <<"missing required param ", name>>

IsTooMany(err, name) ==
    err = <<"too many values for param ", name, ", expected only one">>

\* C9: QueryParamSingle and FormParamSingle return the sole value and no
\* error exactly when the name has exactly one value; an error naming the
\* parameter when it has none; an error stating too many values, expected
\* only one, when it has more; the rule is the same for query and form.
C9_SingleValueOrError ==
    LET n == IF xlast.op = "QueryParamSingle" THEN ValuesInQuery(xlast.name)
             ELSE Len(xreq.Form[xlast.name])
    IN xlast.op \in {"QueryParamSingle", "FormParamSingle"} =>
        /\ xlast.err = NilError <=> n = 1
        /\ n = 1 /\ xlast.op = "FormParamSingle" =>
              xlast.value = xreq.Form[xlast.name][1]
        /\ n = 1 /\ xlast.op = "QueryParamSingle" =>
              \A i \in NameStarts(xlast.name) : xlast.value = ValueAt(i)
        /\ n = 0 => IsMissing(xlast.err, xlast.name) /\ xlast.value = << >>
        /\ n > 1 => IsTooMany(xlast.err, xlast.name) /\ xlast.value = << >>

\* C9 witness: ?x=1&x=2 was asked for its single x and the answer was the error
C9_Witness ==
    /\ xlast.op = "QueryParamSingle"
    /\ xlast.name = "x"
    /\ xreq.RawQuery = <<"x", "=", "1", "&", "x", "=", "2">>
    /\ IsTooMany(xlast.err, "x")

\* ------------------------------------------------------ server lifecycle
ShutdownTimeout == 5

Callers == 1..MaxCallers

\* what a goroutine holding the Server does with it
Programs == {"Wait", "CloseAndWait", "WaitThenCloseAndWait"}

ProgramRank == [Wait |-> 1, CloseAndWait |-> 2, WaitThenCloseAndWait |-> 3]

\* the callers are alike: one assignment of programs for each multiset
CallerPrograms ==
    {f \in [Callers -> Programs] :
        \A a, b \in Callers : a < b => ProgramRank[f[a]] <= ProgramRank[f[b]]}

\* seconds the handler in flight when the model starts still runs (0: none)
HandlerTimes == {0, 3, 10}

NilErr == "nil"

\* the state StartNew returns in: the listener is open, the goroutine that
\* serves is running, closeCh = make(chan error, 1) is empty
LifeInit ==
    /\ \E t \in HandlerTimes : srv = [inShutdown |-> FALSE, handler |-> t,
                                       active |-> t > 0]
    /\ servePc = "serving"
    /\ serveErr = NilErr
    /\ closeCh = [buf |-> << >>, closed |-> FALSE]
    /\ sends = 0
    /\ prog \in CallerPrograms
    /\ cpc = [p \in Callers |-> "start"]
    /\ timer = [p \in Callers |-> 0]
    /\ shutErr = [p \in Callers |-> NilErr]
    /\ closed = [p \in Callers |-> FALSE]
    /\ waits = [p \in Callers |-> << >>]

\* server.Serve(listener), or server.ServeTLS(...) when a certificate is
\* configured, returns because Shutdown or Close was called
ServeReturn ==
    /\ servePc = "serving"
    /\ srv.inShutdown
    /\ serveErr' = "ErrServerClosed"
    /\ servePc' = "returned"
    /\ UNCHANGED <<srv, closeCh, sends, prog, cpc, timer, shutErr,
                   closed, waits>>

\* Serve or ServeTLS returns on its own: Accept failed, or the certificate
\* could not be loaded
ServeFail ==
    /\ servePc = "serving"
    /\ serveErr' = "serve error"
    /\ servePc' = "returned"
    /\ UNCHANGED <<srv, closeCh, sends, prog, cpc, timer, shutErr,
                   closed, waits>>

\* server.closeCh <- err: the buffer of one takes the value at once
ServeSend ==
    /\ servePc = "returned"
    /\ Len(closeCh.buf) < 1
    /\ ~closeCh.closed
    /\ closeCh' = [closeCh EXCEPT !.buf = Append(@, serveErr)]
    /\ sends' = sends + 1
    /\ servePc' = "sent"
    /\ UNCHANGED <<srv, serveErr, prog, cpc, timer, shutErr, closed,
                   waits>>

\* the goroutine ends without the deferred close(server.closeCh)
ServeExitNoClose ==
    /\ servePc = "sent"
    /\ servePc' = "exited"
    /\ UNCHANGED <<srv, serveErr, closeCh, sends, prog, cpc, timer,
                   shutErr, closed, waits>>

\* defer close(server.closeCh), as the goroutine ends
ServeExit ==
    /\ servePc = "sent"
    /\ closeCh' = [closeCh EXCEPT !.closed = TRUE]
    /\ servePc' = "exited"
    /\ UNCHANGED <<srv, serveErr, sends, prog, cpc, timer, shutErr,
                   closed, waits>>

\* the caller in cpc "start" enters Wait or CloseAndWait
BeginWait(p) ==
    /\ cpc[p] = "start"
    /\ prog[p] \in {"Wait", "WaitThenCloseAndWait"}
    /\ cpc' = [cpc EXCEPT ![p] = "wait"]
    /\ UNCHANGED <<srv, servePc, serveErr, closeCh, sends, prog,
                   timer, shutErr, closed, waits>>

\* CloseAndWait: s.Server.Shutdown(ctx) begins, ctx ending in 5 seconds; the
\* listener is closed and the server is in shutdown from here on
BeginShutdown(p) ==
    /\ \/ cpc[p] = "start" /\ prog[p] = "CloseAndWait"
       \/ cpc[p] = "next" /\ prog[p] = "WaitThenCloseAndWait"
    /\ srv' = [srv EXCEPT !.inShutdown = TRUE]
    /\ timer' = [timer EXCEPT ![p] = 0]
    /\ cpc' = [cpc EXCEPT ![p] = "shutdown"]
    /\ UNCHANGED <<servePc, serveErr, closeCh, sends, prog, shutErr,
                   closed, waits>>

\* what CloseAndWait does with the error of Shutdown
AfterShutdown(p, err) ==
    /\ shutErr' = [shutErr EXCEPT ![p] = err]
    /\ timer' = [timer EXCEPT ![p] = 0]
    /\ cpc' = [cpc EXCEPT ![p] = IF err # NilErr THEN "close" ELSE "closewait"]

\* Shutdown finds no connection in use and returns the listener's error
ShutdownIdle(p) ==
    /\ cpc[p] = "shutdown"
    /\ ~srv.active
    /\ \E err \in {NilErr, "listener close error"} : AfterShutdown(p, err)
    /\ UNCHANGED <<srv, servePc, serveErr, closeCh, sends, prog, closed, waits>>

\* Shutdown returns ctx.Err(): the 5 seconds are over
ShutdownDeadline(p) ==
    /\ cpc[p] = "shutdown"
    /\ timer[p] >= ShutdownTimeout
    /\ AfterShutdown(p, "context deadline exceeded")
    /\ UNCHANGED <<srv, servePc, serveErr, closeCh, sends, prog, closed, waits>>

\* CloseAndWait: s.Server.Close() after Shutdown failed; the connections are
\* closed under the handlers
ForceClose(p) ==
    /\ cpc[p] = "close"
    /\ srv' = [srv EXCEPT !.inShutdown = TRUE, !.active = FALSE]
    /\ closed' = [closed EXCEPT ![p] = TRUE]
    /\ cpc' = [cpc EXCEPT ![p] = "closewait"]
    /\ UNCHANGED <<servePc, serveErr, closeCh, sends, prog, timer,
                   shutErr, waits>>

\* <-s.closeCh: the buffered value if there is one, the zero value once the
\* channel is closed and empty; blocks otherwise
Receive1(ch) ==
    IF ch.buf # << >> THEN [v |-> Head(ch.buf), ch |-> [ch EXCEPT !.buf = Tail(@)]]
    ELSE [v |-> NilErr, ch |-> ch]

\* Wait(), alone or as the last statement of CloseAndWait, returns
WaitReturn(p) ==
    /\ cpc[p] \in {"wait", "closewait"}
    /\ closeCh.buf # << >> \/ closeCh.closed
    /\ waits' = [waits EXCEPT ![p] = Append(@, Receive1(closeCh).v)]
    /\ closeCh' = Receive1(closeCh).ch
    /\ cpc' = [cpc EXCEPT ![p] =
                  IF cpc[p] = "wait" /\ prog[p] = "WaitThenCloseAndWait"
                  THEN "next" ELSE "done"]
    /\ UNCHANGED <<srv, servePc, serveErr, sends, prog, timer,
                   shutErr, closed>>

\* a second passes: for the handler in flight, whose connection is in use
\* until it returns, and for every Shutdown context
Tick ==
    /\ \/ srv.active
       \/ \E p \in Callers : cpc[p] = "shutdown" /\ timer[p] < ShutdownTimeout
    /\ srv' = IF srv.active
              THEN [srv EXCEPT !.handler = @ - 1, !.active = srv.handler > 1]
              ELSE srv
    /\ timer' = [p \in Callers |->
                    IF cpc[p] = "shutdown" /\ timer[p] < ShutdownTimeout
                    THEN timer[p] + 1 ELSE timer[p]]
    /\ UNCHANGED <<servePc, serveErr, closeCh, sends, prog, cpc,
                   shutErr, closed, waits>>

\* a step of the goroutine that serves, other than a failure of Accept
ServeStep ==
    (ServeReturn \/ ServeSend \/ ServeExit) /\ UNCHANGED <<dvars, xvars>>

\* a step of the caller p
CallerStep(p) ==
    /\ \/ BeginWait(p)
       \/ BeginShutdown(p)
       \/ ShutdownIdle(p)
       \/ ShutdownDeadline(p)
       \/ ForceClose(p)
       \/ WaitReturn(p)
    /\ UNCHANGED <<dvars, xvars>>

TimeStep == Tick /\ UNCHANGED <<dvars, xvars>>

LifeStart == DispatchIdle /\ ExchangeInit /\ LifeInit

LifeNext ==
    \/ ServeReturn /\ UNCHANGED <<dvars, xvars>>
    \/ ServeFail /\ UNCHANGED <<dvars, xvars>>
    \/ ServeSend /\ UNCHANGED <<dvars, xvars>>
    \/ ServeExit /\ UNCHANGED <<dvars, xvars>>
    \/ \E p \in Callers : BeginWait(p) /\ UNCHANGED <<dvars, xvars>>
    \/ \E p \in Callers : BeginShutdown(p) /\ UNCHANGED <<dvars, xvars>>
    \/ \E p \in Callers : ShutdownIdle(p) /\ UNCHANGED <<dvars, xvars>>
    \/ \E p \in Callers : ShutdownDeadline(p) /\ UNCHANGED <<dvars, xvars>>
    \/ \E p \in Callers : ForceClose(p) /\ UNCHANGED <<dvars, xvars>>
    \/ \E p \in Callers : WaitReturn(p) /\ UNCHANGED <<dvars, xvars>>
    \/ Tick /\ UNCHANGED <<dvars, xvars>>

\* The Go scheduler runs every goroutine that can run, and time passes; that
\* Accept fails is up to the environment and is not forced.
LifeSpec ==
    /\ LifeStart
    /\ [][LifeNext]_vars
    /\ WF_vars(ServeStep)
    /\ WF_vars(TimeStep)
    /\ \A p \in Callers : WF_vars(CallerStep(p))

\* ------------------------------------------------------ lifecycle claims
\* C3: the completion signal is written exactly once by the serve loop, and
\* every call of Wait, for any number of waiters, the Wait inside
\* CloseAndWait after an earlier Wait included, returns only once the serve
\* loop has terminated and returns the error the serve loop delivered.
C3_EveryWaitReturnsServeError ==
    /\ sends <= 1
    /\ \A p \in Callers : \A i \in DOMAIN waits[p] :
          /\ servePc # "serving"
          /\ sends = 1
          /\ waits[p][i] = serveErr

InCloseAndWait(p) == cpc[p] \in {"shutdown", "close", "closewait"}

\* C4: CloseAndWait on a started server always terminates (no caller stays
\* inside it for ever; the only way out of it is its return): it asks for a
\* graceful shutdown bounded by 5 seconds, calls Close only if that shutdown
\* timed out or returned an error, and returns only after the serve loop has
\* terminated and its result has been taken from the completion signal, also
\* with a handler in flight past the timeout and with other goroutines in
\* Wait or CloseAndWait.
C4_CloseAndWaitTerminates ==
    /\ [](\A p \in Callers :
            /\ closed[p] \/ cpc[p] = "close" => shutErr[p] # NilErr
            /\ timer[p] <= 5
            /\ shutErr[p] = "context deadline exceeded" => srv.inShutdown
            /\ cpc[p] = "done" /\ prog[p] # "Wait" =>
                  /\ srv.inShutdown
                  /\ servePc # "serving"
                  /\ sends = 1
                  /\ closeCh.buf = << >>)
    /\ \A p \in Callers : []<>(~InCloseAndWait(p))

\* C4 witness: a CloseAndWait returned after its Shutdown ran into the deadline with the
\* handler still in flight and Close was forced, while another goroutine had
\* already taken the serve result
C4_Witness ==
    \E p \in Callers :
        /\ cpc[p] = "done"
        /\ shutErr[p] = "context deadline exceeded"
        /\ closed[p]
        /\ srv.handler > 0
        /\ waits[p] = <<NilErr>>

====
